---- MODULE Spec2Model ----
(***************************************************************************)
(* GraphMail: the verification gate and graph builder of agent 3           *)
(* (src/src/agents/agent3_verifier.py), the retrying, rate-limited oracle  *)
(* call (src/src/sanitization/rate_limiter.py) and the trust score         *)
(* (src/src/evaluation/trust_score.py).                                    *)
(*                                                                         *)
(* Strings the code concatenates or normalises are sequences of tokens, so *)
(* that f"{a}_{b}" is a \o <<"_">> \o b and lower()/replace() act on each  *)
(* token. Lists are sequences. The graph builder copies the node           *)
(* attributes other than node_type and evidence (name, description,        *)
(* dates, ...) from its input and never reads them; its graph leaves them  *)
(* out. The graphs the trust score is applied to carry name and phase.     *)
(***************************************************************************)
EXTENDS Integers, Sequences, FiniteSets, TLC

VARIABLES
    \* ---- agent_3_verifier / GraphBuilder ----
    pc,              \* position in agent_3_verifier and verify_and_add_project
    project_id,      \* project_id of the verify_and_add_project call in progress
    todo,            \* lengths of the unread rest of topics/challenges/resolutions
    nodes,           \* self.graph: node id -> [node_type, evidence]
    edges,           \* self.graph: <<u, v>> -> [edge_type, evidence]
    rejected_facts,  \* self.rejected_facts
    llm_calls,       \* number of rate_limited_llm_call calls made by verify_fact
    offered,         \* history: candidate facts contained in the project_data read so far
    accepted_n,      \* history: facts verify_fact accepted
    acceptedCh,      \* history: challenge node ids accepted in the call in progress
    last,            \* history: the fact handled by the last step
    \* ---- rate_limited_llm_call and its RateLimiter ----
    rpc,             \* "idle", "loop" (at the while), "returned", "raised"
    ncalls,          \* rate_limited_llm_call calls started so far
    max_retries,     \* arguments of the call in progress
    max_total_time,
    attempt,         \* locals of the call in progress
    elapsed,         \* time.time() - start_time, in tenths of a second
    errors_history,
    call_timestamps, \* limiter.call_timestamps, each as its age (now - ts)
    raised,          \* the exception the call ended with
    raise_kind,      \* history: which raise statement ended the call
    invocations,     \* history: calls of func within the call in progress
    refusals,        \* history: attempts the limiter refused
    last_out,        \* history: what the last call of func returned or raised
    slept,           \* history: the time.sleep delays of the call in progress
    \* ---- is_retryable_error, applied to one error ----
    error_arg,       \* the argument 'error'
    is_retryable,    \* <<>> before the call, then <<the value returned>>
    \* ---- threads calling rate_limited_llm_call on one RateLimiter ----
    \* (the limiter's list is call_timestamps)
    clock,           \* time.time(), in tenths of a second
    t_pc,            \* per thread: "idle", "loop", "admitted" (can_make_call
                     \* returned True), "sleeping", "returned", "raised"
    t_args,          \* per thread: [max_retries, max_total_time]
    t_attempt,       \* per thread: attempt
    t_start,         \* per thread: start_time
    t_wake,          \* per thread: when its time.sleep ends
    \* ---- calculate_trust_score, applied to one graph ----
    extracted_graph, \* [nodes, edges, order]: attributes of each node and
                     \* edge, and graph.nodes() in insertion order
    ground_truth,    \* [truthy, has_projects, projects]
    source_emails,   \* the message_id of each source email
    metrics,         \* <<>> before the call, then <<the dict returned>>
    \* ---- calculate_backoff_delay, applied to two consecutive attempts ----
    backoff_args,    \* [attempt, base_delay, jitter, next_jitter]
    backoff_delays,  \* <<>> before the calls, then <<the delay computed for
                     \* attempt, the delay computed for attempt + 1>>
    \* ---- get_rate_limiter and the limiters it hands out ----
    rate_limiters,   \* _rate_limiters: key -> RateLimiter (its index in instances)
    limiter_lock,    \* _limiter_lock: "free" or the thread holding it
    instances,       \* the RateLimiter objects created so far:
                     \* [max_calls, period, call_timestamps], the last field
                     \* being the list object (its index in lists)
    lists,           \* the list objects created by field(default_factory=list),
                     \* each timestamp as its age in seconds
    g_pc,            \* per thread: "idle", "called", "locked", "found",
                     \* "missing", "holding" (get_rate_limiter has returned)
    g_args,          \* per thread: <<max_calls, period>>
    g_limiter,       \* per thread: the RateLimiter returned (0: none yet)
    returned         \* history: every <<arguments, RateLimiter returned>>

gvars == <<pc, project_id, todo, nodes, edges, rejected_facts, llm_calls,
           offered, accepted_n, acceptedCh, last>>

rvars == <<rpc, ncalls, max_retries, max_total_time, attempt, elapsed,
           errors_history, call_timestamps, raised, raise_kind, invocations,
           refusals, last_out, slept>>

cvars == <<error_arg, is_retryable>>

tvars == <<clock, t_pc, t_args, t_attempt, t_start, t_wake>>

evars == <<extracted_graph, ground_truth, source_emails, metrics>>

bvars == <<backoff_args, backoff_delays>>

lvars == <<rate_limiters, limiter_lock, instances, lists, g_pc, g_args,
           g_limiter, returned>>

vars == <<gvars, rvars, cvars, tvars, evars, bvars, lvars>>

\* what the actions of one part leave alone
outsideGraph == <<rvars, cvars, tvars, evars, bvars, lvars>>

outsideRetry == <<gvars, cvars, tvars, evars, bvars, lvars>>

-----------------------------------------------------------------------------
(* Bounds and input domains of the graph-builder specification *)

\* candidate facts (projects, topics, challenges, resolutions) in one batch
MaxFacts == 3

Range(s) == {s[i] : i \in 1..Len(s)}

\* message_id of state['cleaned_emails']
cleaned_emails == {"m1", "m2"}

\* 'evidence' lists a candidate fact may cite: none, an id absent from the
\* corpus, an id of the corpus, a mix of both
EvidenceLists == {<<>>, <<"g1">>, <<"m1">>, <<"m2", "g1">>}

\* a key missing from a dict
Absent == <<"<absent>">>

ProjectIds == {<<"p1">>, <<"p2">>}
TopicNames == {<<>>, <<"A", " ", "b">>, <<"a", "/", "b">>}
ChallengeIdInputs == {Absent, <<"c1">>, <<"r1">>}
ResolutionIdInputs == {Absent, <<"r1">>}
ResolvesInputs == {Absent, <<"c1">>, <<"r1">>}

\* what the try block of verify_fact ends with: a response whose JSON says
\* supported true / false, a response json.loads cannot parse, or an exception
\* out of rate_limited_llm_call (whatever its kind: retries exhausted, time
\* cap, non-retryable error, local rate limit)
OracleOutcomes == {"supported", "unsupported", "unparsable", "raised"}

\* the oracle is consulted only for evidence found in the corpus
OutcomesFor(evidence_ids) ==
    IF \E i \in 1..Len(evidence_ids) : evidence_ids[i] \in cleaned_emails
    THEN OracleOutcomes ELSE {"none"}

-----------------------------------------------------------------------------
(* dict.get(key, default) *)
Get(field, default) == IF field = Absent THEN default ELSE field

(* str.lower() and str.replace(old, new), token by token *)
LowerChar(c) == CASE c = "A" -> "a" [] c = "B" -> "b" [] OTHER -> c

Lower(s) == [i \in 1..Len(s) |-> LowerChar(s[i])]

Replace(s, old, new) == [i \in 1..Len(s) |-> IF s[i] = old THEN new ELSE s[i]]

(* topic_id = f"topic_{topic_name.lower().replace(' ', '_').replace('/', '_')}" *)
TopicId(topic_name) ==
    <<"topic_">> \o Replace(Replace(Lower(topic_name), " ", "_"), "/", "_")

(* challenge_id = f"{project_id}_{challenge.get('id', 'ch_unknown')}" *)
ChallengeId(pid, id) == pid \o <<"_">> \o Get(id, <<"ch_unknown">>)

(* resolution_id = f"{project_id}_{resolution.get('id', 'res_unknown')}" *)
ResolutionId(pid, id) == pid \o <<"_">> \o Get(id, <<"res_unknown">>)

(* challenge_id = f"{project_id}_{resolution.get('resolves', '')}" *)
ResolvesId(pid, resolves) == pid \o <<"_">> \o Get(resolves, <<>>)

-----------------------------------------------------------------------------
(* networkx DiGraph.add_node / add_edge: an upsert that overwrites the     *)
(* attributes given; add_edge creates missing endpoints without attributes *)

NoAttrs == [node_type |-> "Unknown", evidence |-> <<>>]

AddNode(ns, id, type, ev) ==
    (id :> [node_type |-> type, evidence |-> ev]) @@ ns

EdgeEndpoints(ns, u, v) ==
    ns @@ (u :> NoAttrs) @@ (v :> NoAttrs)

AddEdge(es, u, v, type, ev) ==
    (<<u, v>> :> [edge_type |-> type, evidence |-> ev]) @@ es

HasNode(ns, id) == id \in DOMAIN ns

-----------------------------------------------------------------------------
(* GraphBuilder.verify_fact *)

\* evidence_emails = [e for e in source_emails if e['message_id'] in evidence_ids]
EvidenceEmails(evidence_ids) == {m \in cleaned_emails : m \in Range(evidence_ids)}

\* mutant: the except branch accepts (fails open)
OracleVerdictFailOpen(oracle) == oracle \in {"supported", "raised"}

\* mutant: an answer json.loads cannot parse counts as support
OracleVerdictUnparsableAccepted(oracle) == oracle \in {"supported", "unparsable"}

\* the try block: rate_limited_llm_call, json.loads, result.get('supported', False);
\* any exception returns False
OracleVerdict(oracle) == oracle = "supported"

\* mutant: no "if not evidence_emails: return False"
VerifyFactNoEvidenceCheck(evidence_ids, oracle) ==
    [valid |-> OracleVerdict(oracle), called |-> TRUE]

\* mutant: a fact citing no email of the corpus is accepted
VerifyFactAcceptsUnevidenced(evidence_ids, oracle) ==
    IF \A i \in 1..Len(evidence_ids) : evidence_ids[i] \notin cleaned_emails
    THEN [valid |-> TRUE, called |-> FALSE]
    ELSE [valid |-> oracle = "supported", called |-> TRUE]

\* returns [valid, called]: the verdict, and whether the oracle was called
VerifyFact(evidence_ids, oracle) ==
    IF EvidenceEmails(evidence_ids) = {}
    THEN [valid |-> FALSE, called |-> FALSE]
    ELSE [valid |-> OracleVerdict(oracle), called |-> TRUE]

\* why a fact was rejected, in the terms of the specification's RejectedFact
Cause(evidence_ids, oracle) ==
    IF evidence_ids = <<>> THEN "NoEvidence"
    ELSE IF EvidenceEmails(evidence_ids) = {} THEN "EvidenceNotFound"
    ELSE IF oracle = "unsupported" THEN "OracleRejected"
    ELSE "OracleUnavailable"

\* the 'reason' the code records
ProjectRejectReason == "Cannot verify project name from evidence"

RejectReason == "Cannot verify from evidence"

Rejected(kind, reason, evidence_ids, oracle) ==
    [kind |-> kind, reason |-> reason, cause |-> Cause(evidence_ids, oracle)]

Last(kind, id, ch, evidence_ids, oracle, v) ==
    [kind |-> kind, node_id |-> id, challenge_id |-> ch,
     evidence_ids |-> evidence_ids,
     outcome |-> IF v.called THEN oracle ELSE "none",
     valid |-> v.valid]

-----------------------------------------------------------------------------
InitGraph ==
    /\ pc = "loop"
    /\ project_id = <<>>
    /\ todo = [topics |-> 0, challenges |-> 0, resolutions |-> 0]
    /\ nodes = <<>>
    /\ edges = <<>>
    /\ rejected_facts = <<>>
    /\ llm_calls = 0
    /\ offered = 0
    /\ accepted_n = 0
    /\ acceptedCh = {}
    /\ last = [kind |-> "none", node_id |-> <<>>, challenge_id |-> <<>>,
               evidence_ids |-> <<>>, outcome |-> "none", valid |-> FALSE]

\* verify_and_add_project runs its three loops in this order
PhaseAfter(t) ==
    IF t.topics > 0 THEN "topics"
    ELSE IF t.challenges > 0 THEN "challenges"
    ELSE IF t.resolutions > 0 THEN "resolutions"
    ELSE "loop"

Count(v) == IF v.called THEN llm_calls + 1 ELSE llm_calls

(* agent_3_verifier's loop body: verify_and_add_project up to the first loop *)
VerifyAndAddProject ==
    /\ pc = "loop"
    /\ offered < MaxFacts
    /\ \E pid \in ProjectIds, ev \in EvidenceLists,
          nt \in 0..MaxFacts, nc \in 0..MaxFacts, nr \in 0..MaxFacts :
       \E oracle \in OutcomesFor(ev) :
         LET v == VerifyFact(ev, oracle)
             t == [topics |-> nt, challenges |-> nc, resolutions |-> nr]
         IN  /\ offered + 1 + nt + nc + nr <= MaxFacts
             /\ offered' = offered + 1 + nt + nc + nr
             /\ llm_calls' = Count(v)
             /\ last' = Last("Project", pid, <<>>, ev, oracle, v)
             /\ acceptedCh' = {}
             /\ project_id' = pid
             /\ IF ~v.valid
                THEN /\ rejected_facts' = Append(rejected_facts,
                            Rejected("Project", ProjectRejectReason, ev, oracle))
                     /\ pc' = "loop"
                     /\ todo' = [topics |-> 0, challenges |-> 0, resolutions |-> 0]
                     /\ UNCHANGED <<nodes, edges, accepted_n>>
                ELSE /\ nodes' = AddNode(nodes, pid, "Project", ev)
                     /\ accepted_n' = accepted_n + 1
                     /\ pc' = PhaseAfter(t)
                     /\ todo' = t
                     /\ UNCHANGED <<edges, rejected_facts>>
    /\ UNCHANGED outsideGraph

(* one iteration of "for topic in project_data.get('topics', [])": _add_topic *)
AddTopic ==
    /\ pc = "topics"
    /\ \E topic_name \in TopicNames, ev \in EvidenceLists :
       \E oracle \in OutcomesFor(ev) :
         LET v == VerifyFact(ev, oracle)
             topic_id == TopicId(topic_name)
             t == [todo EXCEPT !.topics = @ - 1]
         IN  /\ llm_calls' = Count(v)
             /\ last' = Last("Topic", topic_id, <<>>, ev, oracle, v)
             /\ todo' = t
             /\ pc' = PhaseAfter(t)
             /\ IF v.valid
                THEN /\ nodes' = EdgeEndpoints(AddNode(nodes, topic_id, "Topic", ev),
                                               project_id, topic_id)
                     /\ edges' = AddEdge(edges, project_id, topic_id, "HAS_TOPIC", ev)
                     /\ accepted_n' = accepted_n + 1
                     /\ UNCHANGED rejected_facts
                ELSE /\ rejected_facts' = Append(rejected_facts,
                            Rejected("Topic", RejectReason, ev, oracle))
                     /\ UNCHANGED <<nodes, edges, accepted_n>>
    /\ UNCHANGED <<project_id, offered, acceptedCh>>
    /\ UNCHANGED outsideGraph

(* one iteration of the challenges loop: _add_challenge *)
AddChallenge ==
    /\ pc = "challenges"
    /\ \E id \in ChallengeIdInputs, ev \in EvidenceLists :
       \E oracle \in OutcomesFor(ev) :
         LET v == VerifyFact(ev, oracle)
             challenge_id == ChallengeId(project_id, id)
             t == [todo EXCEPT !.challenges = @ - 1]
         IN  /\ llm_calls' = Count(v)
             /\ last' = Last("Challenge", challenge_id, <<>>, ev, oracle, v)
             /\ todo' = t
             /\ pc' = PhaseAfter(t)
             /\ IF v.valid
                THEN /\ nodes' = EdgeEndpoints(
                                    AddNode(nodes, challenge_id, "Challenge", ev),
                                    project_id, challenge_id)
                     /\ edges' = AddEdge(edges, project_id, challenge_id,
                                         "FACED_CHALLENGE", ev)
                     /\ accepted_n' = accepted_n + 1
                     /\ acceptedCh' = acceptedCh \cup {challenge_id}
                     /\ UNCHANGED rejected_facts
                ELSE /\ rejected_facts' = Append(rejected_facts,
                            Rejected("Challenge", RejectReason, ev, oracle))
                     /\ UNCHANGED <<nodes, edges, accepted_n, acceptedCh>>
    /\ UNCHANGED <<project_id, offered>>
    /\ UNCHANGED outsideGraph

\* mutant: the resolution is always linked to its project
LinkSourceAlwaysProject(ns, pid, challenge_id) == pid

\* mutant: the resolution is linked to the challenge id it names, without
\* the has_node test
LinkSourceWithoutHasNode(ns, pid, challenge_id) == challenge_id

\* "if self.graph.has_node(challenge_id)", evaluated after the resolution's
\* own node was added
LinkSource(ns, pid, challenge_id) ==
    IF HasNode(ns, challenge_id) THEN challenge_id ELSE pid

LinkType(ns, challenge_id) ==
    IF HasNode(ns, challenge_id) THEN "RESOLVED_BY" ELSE "HAS_RESOLUTION"

(* one iteration of the resolutions loop: _add_resolution *)
AddResolution ==
    /\ pc = "resolutions"
    /\ \E id \in ResolutionIdInputs, resolves \in ResolvesInputs,
          ev \in EvidenceLists :
       \E oracle \in OutcomesFor(ev) :
         LET v == VerifyFact(ev, oracle)
             resolution_id == ResolutionId(project_id, id)
             challenge_id == ResolvesId(project_id, resolves)
             t == [todo EXCEPT !.resolutions = @ - 1]
             added == AddNode(nodes, resolution_id, "Resolution", ev)
             src == LinkSource(added, project_id, challenge_id)
         IN  /\ llm_calls' = Count(v)
             /\ last' = Last("Resolution", resolution_id, challenge_id, ev, oracle, v)
             /\ todo' = t
             /\ pc' = PhaseAfter(t)
             /\ IF v.valid
                THEN /\ nodes' = EdgeEndpoints(added, src, resolution_id)
                     /\ edges' = AddEdge(edges, src, resolution_id,
                                         LinkType(added, challenge_id), ev)
                     /\ accepted_n' = accepted_n + 1
                     /\ UNCHANGED rejected_facts
                ELSE /\ rejected_facts' = Append(rejected_facts,
                            Rejected("Resolution", RejectReason, ev, oracle))
                     /\ UNCHANGED <<nodes, edges, accepted_n>>
    /\ UNCHANGED <<project_id, offered, acceptedCh>>
    /\ UNCHANGED outsideGraph

(* the end of agent_3_verifier: export_graph, get_graph_stats, then        *)
(* stats['nodes'] on a dict whose keys are total_nodes, total_edges,       *)
(* node_types, edge_types: a KeyError                                      *)
ExportAndStats ==
    /\ pc = "loop"
    /\ pc' = "raised_KeyError"
    /\ UNCHANGED <<project_id, todo, nodes, edges, rejected_facts, llm_calls,
                   offered, accepted_n, acceptedCh, last>>
    /\ UNCHANGED outsideGraph

-----------------------------------------------------------------------------
(* rate_limited_llm_call (rate_limiter.py): bounds and input domains.      *)
(* Times are in tenths of a second.                                        *)

\* largest max_retries argument
MaxRetriesMax == 3

\* rate_limited_llm_call calls made one after the other on the limiter
MaxCallsPerRun == 2

\* the limiter passed in: RateLimiter(max_calls=1, period=2)
LimiterMaxCalls == 1

LimiterPeriod == 20

\* base_delay = 1.0
BaseDelay == 10

\* max_total_time: 2.0 and the default 10.0
TimeCaps == {20, 100}

\* random.uniform(-jitter_pct, jitter_pct) with jitter_pct = 0.2: both ends
\* and the middle, in tenths
Jitters == {-2, 0, 2}

\* how long one call of func takes
Latencies == {0, 20}

\* time between the end of a call and the start of the next one
Gaps == {0, 10}

\* an exception without a status_code attribute
NoStatus == -1

\* an exception without headers, or headers without Retry-After
NoHeader == "<none>"

Err(type, status_code, msg, retry_after) ==
    [type |-> type, status_code |-> status_code, msg |-> msg,
     retry_after |-> retry_after]

\* func returned
OkResult == Err("ok", NoStatus, <<>>, NoHeader)

NoError == Err("none", NoStatus, <<>>, NoHeader)

\* what func may raise
FuncErrors ==
    { Err("APIError", 503, <<"overload">>, NoHeader),
      Err("APIError", 503, <<"overload">>, "soon"),
      Err("APIError", 429, <<"slow", "down">>, "2"),
      Err("APIError", 429, <<"slow", "down">>, "0"),
      Err("APIError", 401, <<"Rate", "limit">>, NoHeader),
      Err("Exception", NoStatus, <<"rate", "limit">>, NoHeader),
      Err("Exception", NoStatus, <<"boom">>, NoHeader) }

FuncOutcomes == {OkResult} \cup FuncErrors

-----------------------------------------------------------------------------
(* RateLimiter *)

Min(a, b) == IF a < b THEN a ELSE b

\* time passes: every timestamp grows older (ages at or beyond the period
\* are all outside the window and are kept as the period)
Advance(ts, d) == [i \in 1..Len(ts) |-> Min(ts[i] + d, LimiterPeriod)]

InWindow(age) == age < LimiterPeriod

\* _clean_old_calls: keep ts > now - period
CleanOldCalls(ts) == SelectSeq(ts, InWindow)

\* mutant: the limiter admits while the window holds max_calls timestamps
CanMakeCallOffByOne(ts) == Len(CleanOldCalls(ts)) <= LimiterMaxCalls

\* can_make_call, after its _clean_old_calls
CanMakeCall(ts) == Len(CleanOldCalls(ts)) < LimiterMaxCalls

\* mutant: record_call prunes and appends nothing
RecordCallNothing(ts) == CleanOldCalls(ts)

\* record_call: append now, then _clean_old_calls
RecordCall(ts) == CleanOldCalls(Append(ts, 0))

-----------------------------------------------------------------------------
(* is_retryable_error, calculate_backoff_delay, parse_retry_after *)

LowerWord(w) == CASE w = "Rate" -> "rate" [] w = "Limit" -> "limit" [] OTHER -> w

\* "w in str(error).lower()", a message being a sequence of words
Contains(msg, w) == \E i \in 1..Len(msg) : LowerWord(msg[i]) = w

\* mutant: the message heuristics are consulted before the status codes
IsRetryableErrorMessageFirst(e) ==
    \/ (Contains(e.msg, "rate") /\ Contains(e.msg, "limit"))
    \/ Contains(e.msg, "quota")
    \/ e.status_code \in {429, 500, 502, 503, 504}

\* mutant: an error the status codes do not settle is retried by default
IsRetryableErrorRetryByDefault(e) ==
    IF e.status_code \in {429, 500, 502, 503, 504} THEN TRUE
    ELSE IF e.status_code \in {400, 401, 403, 404} THEN FALSE
    ELSE TRUE

IsRetryableError(e) ==
    IF e.status_code # NoStatus /\ e.status_code \in {429, 500, 502, 503, 504}
    THEN TRUE
    ELSE IF e.status_code # NoStatus /\ e.status_code \in {400, 401, 403, 404}
    THEN FALSE
    ELSE \/ (Contains(e.msg, "rate") /\ Contains(e.msg, "limit"))
         \/ Contains(e.msg, "quota")
         \/ Contains(e.msg, "service unavailable") \/ Contains(e.msg, "503")
         \/ Contains(e.msg, "timeout") \/ Contains(e.msg, "504")

\* mutant: the delay grows linearly with the attempt number
CalculateBackoffDelayLinear(a, base_delay, jitter) ==
    (a * base_delay * (10 + jitter)) \div 10

\* 2 ** (attempt - 1) * base_delay * (1 + jitter), jitter in tenths
CalculateBackoffDelay(a, base_delay, jitter) ==
    (2 ^ (a - 1) * base_delay * (10 + jitter)) \div 10

\* float(header) for the header values of FuncErrors; <<>> is None
ParseRetryAfter(header) ==
    IF header = NoHeader THEN <<>>
    ELSE IF header = "0" THEN <<0>>
    ELSE IF header = "2" THEN <<20>>
    ELSE <<>>

\* "if retry_after_delay:" is false for None and for 0.0
Truthy(opt) == opt # <<>> /\ opt[1] # 0

-----------------------------------------------------------------------------
(* rate_limited_llm_call *)

RECURSIVE Join(_)
\* " | ".join(errors_history)
Join(h) ==
    IF h = <<>> THEN <<>>
    ELSE IF Len(h) = 1 THEN h[1]
    ELSE h[1] \o <<"|">> \o Join(Tail(h))

\* f"Local rate limit: {limiter.call_count}/{limiter.max_calls} calls"
LocalLimitMessage(ts) ==
    <<"Local rate limit:", ToString(Len(CleanOldCalls(ts))), "/",
      ToString(LimiterMaxCalls), "calls">>

\* f"Failed after {attempt} attempts: {error_context}"
ExhaustedMessage(a, h) == <<"Failed after", ToString(a), "attempts:">> \o Join(h)

\* f"Retry time cap exceeded: ..." (the numbers it formats are left out)
TimeCapMessage == <<"Retry time cap exceeded">>

\* mutant: "while attempt < max_retries"
WhileHeadOffByOne(a, mr) == IF a < mr THEN "loop" ELSE "raised"

\* "while attempt <= max_retries", and the raise after the loop
WhileHead(a, mr) == IF a <= mr THEN "loop" ELSE "raised"

WhileKind(a, mr) == IF a <= mr THEN "none" ELSE "runtime_error"

WhileError(a, mr) ==
    IF a <= mr THEN NoError
    ELSE Err("RuntimeError", NoStatus, <<"Retry logic error">>, NoHeader)

\* mutant: the last attempt is taken to be attempt max_retries + 2
RetriesExhaustedOffByOne(a, mr) == a > mr + 1

\* "if attempt > max_retries"
RetriesExhausted(a, mr) == a > mr

\* mutant: the cap is compared with the time already spent only
OverTimeCapIgnoresDelay(el, delay, cap) == el > cap

\* mutant: no wait is ever refused for the time it would take
OverTimeCapNever(el, delay, cap) == FALSE

\* "if elapsed + delay > max_total_time"
OverTimeCap(el, delay, cap) == el + delay > cap

\* lines 427-440: the Retry-After value if it is truthy, else the backoff
RetryDelay(e, a, jitter) ==
    IF Truthy(ParseRetryAfter(e.retry_after))
    THEN ParseRetryAfter(e.retry_after)[1]
    ELSE CalculateBackoffDelay(a, BaseDelay, jitter)

InitRetry ==
    /\ rpc = "idle"
    /\ ncalls = 0
    /\ max_retries = 0
    /\ max_total_time = 0
    /\ attempt = 0
    /\ elapsed = 0
    /\ errors_history = <<>>
    /\ call_timestamps = <<>>
    /\ raised = NoError
    /\ raise_kind = "none"
    /\ invocations = 0
    /\ refusals = 0
    /\ last_out = NoError
    /\ slept = <<>>

(* lines 296-302: a call starts *)
StartCall ==
    /\ rpc \in {"idle", "returned", "raised"}
    /\ ncalls < MaxCallsPerRun
    /\ \E mr \in 0..MaxRetriesMax, cap \in TimeCaps, gap \in Gaps :
         /\ max_retries' = mr
         /\ max_total_time' = cap
         /\ call_timestamps' = Advance(call_timestamps, gap)
         /\ rpc' = WhileHead(0, mr)
         /\ raise_kind' = WhileKind(0, mr)
         /\ raised' = WhileError(0, mr)
    /\ ncalls' = ncalls + 1
    /\ attempt' = 0
    /\ elapsed' = 0
    /\ errors_history' = <<>>
    /\ invocations' = 0
    /\ refusals' = 0
    /\ last_out' = NoError
    /\ slept' = <<>>
    /\ UNCHANGED outsideRetry

\* raise: the call ends
Raise(kind, e, now, ts) ==
    /\ rpc' = "raised"
    /\ raise_kind' = kind
    /\ raised' = e
    /\ elapsed' = now
    /\ call_timestamps' = ts
    /\ UNCHANGED slept

\* time.sleep(delay), then back to the while
SleepThen(delay, now, ts) ==
    /\ elapsed' = now + delay
    /\ slept' = Append(slept, delay)
    /\ call_timestamps' = Advance(ts, delay)
    /\ rpc' = WhileHead(attempt', max_retries)
    /\ raise_kind' = WhileKind(attempt', max_retries)
    /\ raised' = WhileError(attempt', max_retries)

(* one iteration of the while whose limiter check refuses: lines 304-356 *)
AttemptRefused ==
    /\ rpc = "loop"
    /\ ~CanMakeCall(call_timestamps)
    /\ attempt' = attempt + 1
    /\ refusals' = refusals + 1
    /\ errors_history' = Append(errors_history, LocalLimitMessage(call_timestamps))
    /\ LET ts == CleanOldCalls(call_timestamps)
           error == Err("RateLimitExceeded", NoStatus,
                        LocalLimitMessage(call_timestamps), NoHeader)
       IN  IF RetriesExhausted(attempt', max_retries)
           THEN Raise("rate_limit_exceeded", error, elapsed, ts)
           ELSE \E jitter \in Jitters :
                  LET delay == CalculateBackoffDelay(attempt', BaseDelay, jitter)
                  IN  IF OverTimeCap(elapsed, delay, max_total_time)
                      THEN Raise("time_cap_exceeded",
                                 Err("RateLimitExceeded", NoStatus,
                                     TimeCapMessage, NoHeader), elapsed, ts)
                      ELSE SleepThen(delay, elapsed, ts)
    /\ UNCHANGED <<ncalls, max_retries, max_total_time, invocations, last_out>>
    /\ UNCHANGED outsideRetry

(* one iteration of the while whose limiter check admits: lines 304-308 and *)
(* 358-467                                                                  *)
AttemptCall ==
    /\ rpc = "loop"
    /\ CanMakeCall(call_timestamps)
    /\ attempt' = attempt + 1
    /\ invocations' = invocations + 1
    /\ \E out \in FuncOutcomes, latency \in Latencies :
         LET now == elapsed + latency
             ts == Advance(CleanOldCalls(call_timestamps), latency)
         IN  /\ last_out' = out
             /\ IF out = OkResult
                 THEN /\ call_timestamps' = RecordCall(ts)
                      /\ rpc' = "returned"
                      /\ elapsed' = now
                      /\ UNCHANGED <<errors_history, raised, raise_kind, slept>>
                 ELSE /\ errors_history' = Append(errors_history, out.msg)
                      /\ IF ~IsRetryableError(out)
                         THEN Raise("non_retryable", out, now, ts)
                         ELSE IF RetriesExhausted(attempt', max_retries)
                         THEN Raise("retries_exhausted",
                                    Err(out.type, NoStatus,
                                        ExhaustedMessage(attempt', errors_history'),
                                        NoHeader), now, ts)
                         ELSE \E jitter \in Jitters :
                                LET delay == RetryDelay(out, attempt', jitter)
                                IN  IF OverTimeCap(now, delay, max_total_time)
                                    THEN Raise("time_cap_exceeded",
                                               Err(out.type, NoStatus, TimeCapMessage,
                                                   NoHeader), now, ts)
                                    ELSE SleepThen(delay, now, ts)
    /\ UNCHANGED <<ncalls, max_retries, max_total_time, refusals>>
    /\ UNCHANGED outsideRetry

-----------------------------------------------------------------------------
(* is_retryable_error applied to one error *)

\* error.status_code: none, the listed codes, and two codes the function
\* does not list
StatusCodes == {NoStatus, 400, 401, 403, 404, 429, 500, 502, 503, 504, 418, 501}

\* str(error)
ErrorMessages ==
    { <<"boom">>, <<"rate", "limit">>, <<"Rate", "Limit">>, <<"rate">>,
      <<"limit">>, <<"quota">>, <<"service unavailable">>, <<"503">>,
      <<"timeout">>, <<"504">> }

ErrorInputs ==
    { Err("APIError", c, m, NoHeader) : c \in StatusCodes, m \in ErrorMessages }

NotClassified ==
    /\ error_arg = NoError
    /\ is_retryable = <<>>

InitClassify ==
    /\ error_arg \in ErrorInputs
    /\ is_retryable = <<>>

IsRetryableErrorCall ==
    /\ is_retryable = <<>>
    /\ is_retryable' = <<IsRetryableError(error_arg)>>
    /\ UNCHANGED <<error_arg, gvars, rvars, tvars, evars, bvars, lvars>>

-----------------------------------------------------------------------------
(* Several threads in rate_limited_llm_call on the same RateLimiter. A     *)
(* thread takes one step per operation on the limiter: can_make_call and   *)
(* record_call each hold limiter.lock for their whole body, and nothing    *)
(* holds it from one to the other.                                         *)

Threads == {"t1", "t2"}

\* the clock is followed up to this time
MaxClock == 40

\* how far the clock moves in one step
TickSteps == {10}

\* max_retries of the calls the threads make
ThreadRetries == {0, 1}

InitThreads ==
    /\ clock = 0
    /\ t_pc = [t \in Threads |-> "idle"]
    /\ t_args = [t \in Threads |-> [max_retries |-> 0, max_total_time |-> 0]]
    /\ t_attempt = [t \in Threads |-> 0]
    /\ t_start = [t \in Threads |-> 0]
    /\ t_wake = [t \in Threads |-> 0]

outsideThreads ==
    <<gvars, cvars, evars, bvars, lvars, rpc, ncalls, max_retries, max_total_time, attempt, elapsed,
      errors_history, raised, raise_kind, invocations, refusals, last_out, slept>>

\* time passes
Tick ==
    /\ \E d \in TickSteps :
         /\ clock + d <= MaxClock
         /\ clock' = clock + d
         /\ call_timestamps' = Advance(call_timestamps, d)
    /\ UNCHANGED <<t_pc, t_args, t_attempt, t_start, t_wake>>
    /\ UNCHANGED outsideThreads

(* lines 296-302 *)
ThreadStart(t) ==
    /\ t_pc[t] = "idle"
    /\ \E mr \in ThreadRetries, cap \in TimeCaps :
         /\ t_args' = [t_args EXCEPT ![t] = [max_retries |-> mr,
                                             max_total_time |-> cap]]
         /\ t_pc' = [t_pc EXCEPT ![t] = WhileHead(0, mr)]
    /\ t_attempt' = [t_attempt EXCEPT ![t] = 0]
    /\ t_start' = [t_start EXCEPT ![t] = clock]
    /\ UNCHANGED <<clock, t_wake, call_timestamps>>
    /\ UNCHANGED outsideThreads

\* after a failed attempt: raise on the time cap, or time.sleep(delay)
ThreadBackoff(t, delay) ==
    IF OverTimeCap(clock - t_start[t], delay, t_args[t].max_total_time)
    THEN /\ t_pc' = [t_pc EXCEPT ![t] = "raised"]
         /\ UNCHANGED t_wake
    ELSE /\ t_pc' = [t_pc EXCEPT ![t] = "sleeping"]
         /\ t_wake' = [t_wake EXCEPT ![t] = clock + delay]

(* lines 304-356: attempt += 1 and limiter.can_make_call() *)
ThreadCheck(t) ==
    /\ t_pc[t] = "loop"
    /\ t_attempt' = [t_attempt EXCEPT ![t] = @ + 1]
    /\ call_timestamps' = CleanOldCalls(call_timestamps)
    /\ IF CanMakeCall(call_timestamps)
       THEN /\ t_pc' = [t_pc EXCEPT ![t] = "admitted"]
            /\ UNCHANGED t_wake
       ELSE IF RetriesExhausted(t_attempt'[t], t_args[t].max_retries)
       THEN /\ t_pc' = [t_pc EXCEPT ![t] = "raised"]
            /\ UNCHANGED t_wake
       ELSE \E jitter \in Jitters :
              ThreadBackoff(t, CalculateBackoffDelay(t_attempt'[t], BaseDelay, jitter))
    /\ UNCHANGED <<clock, t_args, t_start>>
    /\ UNCHANGED outsideThreads

(* lines 358-467: func returns or raises; limiter.record_call() on success *)
ThreadCall(t) ==
    /\ t_pc[t] = "admitted"
    /\ \E out \in FuncOutcomes :
         IF out = OkResult
         THEN /\ call_timestamps' = RecordCall(call_timestamps)
              /\ t_pc' = [t_pc EXCEPT ![t] = "returned"]
              /\ UNCHANGED t_wake
         ELSE /\ UNCHANGED call_timestamps
              /\ IF \/ ~IsRetryableError(out)
                    \/ RetriesExhausted(t_attempt[t], t_args[t].max_retries)
                 THEN /\ t_pc' = [t_pc EXCEPT ![t] = "raised"]
                      /\ UNCHANGED t_wake
                 ELSE \E jitter \in Jitters :
                        ThreadBackoff(t, RetryDelay(out, t_attempt[t], jitter))
    /\ UNCHANGED <<clock, t_args, t_attempt, t_start>>
    /\ UNCHANGED outsideThreads

(* time.sleep(delay) ends: back to the while *)
ThreadWake(t) ==
    /\ t_pc[t] = "sleeping"
    /\ clock >= t_wake[t]
    /\ t_pc' = [t_pc EXCEPT ![t] = WhileHead(t_attempt[t], t_args[t].max_retries)]
    /\ UNCHANGED <<clock, t_args, t_attempt, t_start, t_wake, call_timestamps>>
    /\ UNCHANGED outsideThreads

-----------------------------------------------------------------------------
(* trust_score.py. A float is an exact fraction [n, d] with d > 0, and      *)
(* round(x, 3) gives an integer number of thousandths.                      *)

RECURSIVE GCD(_, _)
GCD(a, b) == IF b = 0 THEN a ELSE GCD(b, a % b)

\* the fraction n / d in lowest terms
Frac(n, d) == LET g == GCD(n, d) IN [n |-> n \div g, d |-> d \div g]

FracPlus(a, b) == Frac(a.n * b.d + b.n * a.d, a.d * b.d)

FracTimes(a, b) == Frac(a.n * b.n, a.d * b.d)

FracMin(a, b) == IF a.n * b.d <= b.n * a.d THEN a ELSE b

\* 1 - a
FracOneMinus(a) == Frac(a.d - a.n, a.d)

FracZero == Frac(0, 1)

\* round(x, 3) for x >= 0, in thousandths: to the nearest, a tie to the even
\* neighbour
Round3(a) ==
    LET k == (1000 * a.n) \div a.d
        r == 1000 * a.n - k * a.d
    IN  IF 2 * r < a.d THEN k
        ELSE IF 2 * r > a.d THEN k + 1
        ELSE IF k % 2 = 0 THEN k ELSE k + 1

\* a thousandths value as a fraction
Thousandths(k) == Frac(k, 1000)

\* graph.edges()
EdgesOf(g) == DOMAIN g.edges

\* "if evidence: if any(eid in source_message_ids for eid in evidence)"
Traceable(evidence, source_message_ids) ==
    evidence # <<>> /\ \E i \in 1..Len(evidence) : evidence[i] \in source_message_ids

\* count_extracted_facts
CountExtractedFacts(g) == Cardinality(DOMAIN g.nodes) + Cardinality(EdgesOf(g))

TraceableFacts(g, source_message_ids) ==
    Cardinality({x \in DOMAIN g.nodes :
                    Traceable(g.nodes[x].evidence, source_message_ids)})
    + Cardinality({x \in EdgesOf(g) :
                    Traceable(g.edges[x].evidence, source_message_ids)})

\* calculate_fact_traceability
CalculateFactTraceability(g, source_message_ids) ==
    IF CountExtractedFacts(g) > 0
    THEN Frac(TraceableFacts(g, source_message_ids), CountExtractedFacts(g))
    ELSE FracZero

\* detect_hallucinations: the nodes it lists, with the reason given; it
\* iterates over graph.nodes() only
DetectHallucinations(g, source_message_ids) ==
    { [type |-> "node", id |-> x,
       reason |-> IF g.nodes[x].evidence = <<>> THEN "No evidence provided"
                  ELSE "Evidence IDs not found in source emails"] :
      x \in {y \in DOMAIN g.nodes :
                ~Traceable(g.nodes[y].evidence, source_message_ids)} }

\* used_message_ids of estimate_completeness: the evidence of the nodes
UsedMessageIds(g) == UNION {Range(g.nodes[x].evidence) : x \in DOMAIN g.nodes}

\* mutant: the coverage ratio is not capped at 1.0
EstimateCompletenessUncapped(g, source_message_ids) ==
    LET num_emails == Cardinality(source_message_ids)
        coverage_ratio ==
            IF num_emails > 0
            THEN Frac(Cardinality(DOMAIN g.nodes) + Cardinality(DOMAIN g.edges),
                      num_emails * 4)
            ELSE Frac(0, 1)
        evidence_coverage ==
            IF source_message_ids # {}
            THEN Frac(Cardinality((UNION {Range(g.nodes[x].evidence) :
                                            x \in DOMAIN g.nodes})
                                  \cap source_message_ids),
                      Cardinality(source_message_ids))
            ELSE Frac(0, 1)
    IN  Frac(6 * coverage_ratio.n * evidence_coverage.d
                + 4 * evidence_coverage.n * coverage_ratio.d,
             10 * coverage_ratio.d * evidence_coverage.d)

\* estimate_completeness
EstimateCompleteness(g, source_message_ids) ==
    LET num_emails == Cardinality(source_message_ids)
        expected_facts == num_emails * 4
        coverage_ratio ==
            IF expected_facts > 0
            THEN FracMin(Frac(CountExtractedFacts(g), expected_facts), Frac(1, 1))
            ELSE FracZero
        evidence_coverage ==
            IF source_message_ids # {}
            THEN Frac(Cardinality(UsedMessageIds(g) \cap source_message_ids),
                      Cardinality(source_message_ids))
            ELSE FracZero
    IN  FracPlus(FracTimes(coverage_ratio, Frac(6, 10)),
                 FracTimes(evidence_coverage, Frac(4, 10)))

\* "part in msg" for strings: part occurs in msg as a run of consecutive tokens
Embeds(msg, part) ==
    \E i \in 0..(Len(msg) - Len(part)) : SubSeq(msg, i + 1, i + Len(part)) = part

\* "gt_name in extracted_name or extracted_name in gt_name", both lowered
NameMatches(gt_name, name) ==
    \/ Embeds(Lower(name), Lower(gt_name))
    \/ Embeds(Lower(gt_name), Lower(name))

\* [n for n in graph.nodes() if node_type == 'Project'], in graph order
ProjectNodes(g) ==
    SelectSeq(g.order, LAMBDA x : g.nodes[x].node_type = "Project")

\* ground_truth.get('projects', {}).items(), in dict order
GtProjects(gt) == IF gt.has_projects THEN gt.projects ELSE <<>>

\* "if ground_truth and 'projects' in ground_truth"
HasGroundTruth(gt) == gt.truthy /\ gt.has_projects

\* count_ground_truth_facts
CountGroundTruthFacts(gt) ==
    LET F[i \in 0..Len(GtProjects(gt))] ==
            IF i = 0 THEN 0
            ELSE F[i - 1] + 1 + Len(GtProjects(gt)[i].topics)
                          + GtProjects(gt)[i].challenges
                          + GtProjects(gt)[i].resolutions
    IN  F[Len(GtProjects(gt))]

\* names of the Topic successors of a node, lowered
ExtractedTopics(g, node) ==
    { Lower(g.nodes[e[2]].name) :
        e \in {x \in EdgesOf(g) : x[1] = node /\ g.nodes[x[2]].node_type = "Topic"} }

\* what one ground-truth project adds to 'matching': the first project
\* node whose name matches counts 1 plus the topics in common
MatchingOf(g, gt_project) ==
    LET ps == ProjectNodes(g)
        hits == {i \in 1..Len(ps) :
                    NameMatches(gt_project.project_name, g.nodes[ps[i]].name)}
    IN  IF hits = {} THEN 0
        ELSE LET first == CHOOSE i \in hits : \A j \in hits : i <= j
             IN  1 + Cardinality({Lower(gt_project.topics[k]) :
                                     k \in 1..Len(gt_project.topics)}
                                 \cap ExtractedTopics(g, ps[first]))

\* count_matching_facts
CountMatchingFacts(g, gt) ==
    LET F[i \in 0..Len(GtProjects(gt))] ==
            IF i = 0 THEN 0 ELSE F[i - 1] + MatchingOf(g, GtProjects(gt)[i])
    IN  F[Len(GtProjects(gt))]

\* calculate_extraction_completeness
CalculateExtractionCompleteness(g, gt) ==
    IF ~HasGroundTruth(gt) THEN FracZero
    ELSE IF CountGroundTruthFacts(gt) > 0
    THEN Frac(CountMatchingFacts(g, gt), CountGroundTruthFacts(gt))
    ELSE FracZero

\* calculate_phase_accuracy: [correct, total] of one project node, from the
\* first ground-truth project whose name matches
PhaseOf(g, gt, node) ==
    LET gs == GtProjects(gt)
        hits == {i \in 1..Len(gs) :
                    NameMatches(gs[i].project_name, g.nodes[node].name)}
    IN  IF hits = {} THEN [correct |-> 0, total |-> 0]
        ELSE LET first == CHOOSE i \in hits : \A j \in hits : i <= j
             IN  [correct |-> IF g.nodes[node].phase = gs[first].phase THEN 1 ELSE 0,
                  total |-> 1]

CalculatePhaseAccuracy(g, gt) ==
    LET ps == ProjectNodes(g)
        C[i \in 0..Len(ps)] ==
            IF i = 0 THEN 0 ELSE C[i - 1] + PhaseOf(g, gt, ps[i]).correct
        T[i \in 0..Len(ps)] ==
            IF i = 0 THEN 0 ELSE T[i - 1] + PhaseOf(g, gt, ps[i]).total
    IN  IF ps = <<>> THEN FracZero
        ELSE IF T[Len(ps)] > 0 THEN Frac(C[Len(ps)], T[Len(ps)])
        ELSE FracZero

\* mutant: the score is computed from the components already rounded
WeightedScoreOfRounded(ft, ec, pa, hr) ==
    FracPlus(FracPlus(FracTimes(Thousandths(Round3(ft)), Frac(35, 100)),
                      FracTimes(Thousandths(Round3(ec)), Frac(25, 100))),
             FracPlus(FracTimes(Thousandths(Round3(pa)), Frac(20, 100)),
                      FracTimes(FracOneMinus(Thousandths(Round3(hr))),
                                Frac(20, 100))))

\* lines 47-52
WeightedScore(ft, ec, pa, hr) ==
    FracPlus(FracPlus(FracTimes(ft, Frac(35, 100)), FracTimes(ec, Frac(25, 100))),
             FracPlus(FracTimes(pa, Frac(20, 100)),
                      FracTimes(FracOneMinus(hr), Frac(20, 100))))

\* calculate_trust_score
CalculateTrustScore(g, gt, ids) ==
    LET fact_traceability == CalculateFactTraceability(g, ids)
        extraction_completeness ==
            IF HasGroundTruth(gt) THEN CalculateExtractionCompleteness(g, gt)
            ELSE EstimateCompleteness(g, ids)
        phase_accuracy ==
            IF HasGroundTruth(gt) THEN CalculatePhaseAccuracy(g, gt) ELSE FracZero
        hallucinations == DetectHallucinations(g, ids)
        total_facts == CountExtractedFacts(g)
        hallucination_rate ==
            IF total_facts > 0 THEN Frac(Cardinality(hallucinations), total_facts)
            ELSE FracZero
        trust_score == WeightedScore(fact_traceability, extraction_completeness,
                                     phase_accuracy, hallucination_rate)
    IN  [trust_score |-> Round3(trust_score),
         fact_traceability |-> Round3(fact_traceability),
         extraction_completeness |-> Round3(extraction_completeness),
         phase_accuracy |-> Round3(phase_accuracy),
         hallucination_rate |-> Round3(hallucination_rate),
         hallucinations |-> hallucinations,
         total_facts |-> total_facts,
         traceable_facts |-> (total_facts * fact_traceability.n)
                                \div fact_traceability.d]

(* the graphs, ground truths and corpora calculate_trust_score is applied to *)

Phases == {"Scoping", "Execution"}

NodeAttrs(type, ev, name, phase) ==
    [node_type |-> type, evidence |-> ev, name |-> name, phase |-> phase]

ScoreProject == <<"p1">>

ScoreTopic == TopicId(<<"b">>)

ScoreTopic2 == TopicId(<<"c">>)

EmptyGraph == [nodes |-> <<>>, edges |-> <<>>, order |-> <<>>]

\* one project node
GraphP(ev, ph) ==
    [nodes |-> (ScoreProject :> NodeAttrs("Project", ev, <<"A">>, ph)),
     edges |-> <<>>,
     order |-> <<ScoreProject>>]

\* a project node and a topic node
GraphPT(ev, ph, ev2) ==
    [GraphP(ev, ph) EXCEPT
        !.nodes = (ScoreTopic :> NodeAttrs("Topic", ev2, <<"b">>, "")) @@ @,
        !.order = Append(@, ScoreTopic)]

\* and the edge between them
GraphPTE(ev, ph, ev2, ev3) ==
    [GraphPT(ev, ph, ev2) EXCEPT
        !.edges = (<<ScoreProject, ScoreTopic>> :>
                      [edge_type |-> "HAS_TOPIC", evidence |-> ev3])]

\* a project, two topics and their edges, all with the same evidence: more
\* facts than the 4 per email estimate_completeness expects of one email
GraphPTT(ev, ph) ==
    [GraphPTE(ev, ph, ev, ev) EXCEPT
        !.nodes = (ScoreTopic2 :> NodeAttrs("Topic", ev, <<"c">>, "")) @@ @,
        !.edges = (<<ScoreProject, ScoreTopic2>> :>
                      [edge_type |-> "HAS_TOPIC", evidence |-> ev]) @@ @,
        !.order = Append(@, ScoreTopic2)]

ScoreGraphs ==
    {EmptyGraph}
    \cup {GraphPTT(ev, ph) : ev \in EvidenceLists, ph \in Phases}
    \cup {GraphP(ev, ph) : ev \in EvidenceLists, ph \in Phases}
    \cup {GraphPT(ev, ph, ev2) : ev \in EvidenceLists, ph \in Phases,
                                 ev2 \in EvidenceLists}
    \cup {GraphPTE(ev, ph, ev2, ev3) : ev \in EvidenceLists, ph \in Phases,
                                       ev2 \in EvidenceLists, ev3 \in EvidenceLists}

\* None or {}
NoGroundTruth == [truthy |-> FALSE, has_projects |-> FALSE, projects |-> <<>>]

GtProject(name) ==
    [project_name |-> name, phase |-> "Scoping",
     topics |-> << <<"B">>, <<"c">> >>, challenges |-> 1, resolutions |-> 0]

\* no ground truth; a dict without 'projects'; {'projects': {}}; one project
\* whose name matches the project node's; one whose name does not
GroundTruths ==
    { NoGroundTruth,
      [truthy |-> TRUE, has_projects |-> FALSE, projects |-> <<>>],
      [truthy |-> TRUE, has_projects |-> TRUE, projects |-> <<>>],
      [truthy |-> TRUE, has_projects |-> TRUE, projects |-> <<GtProject(<<"a">>)>>],
      [truthy |-> TRUE, has_projects |-> TRUE, projects |-> <<GtProject(<<"z">>)>>] }

\* message ids of source_emails: no email, one email, or the corpus of the
\* builder
Corpora == {{}, {"m1"}, cleaned_emails}

NotScored ==
    /\ extracted_graph = EmptyGraph
    /\ ground_truth = NoGroundTruth
    /\ source_emails = cleaned_emails
    /\ metrics = <<>>

InitScore ==
    /\ extracted_graph \in ScoreGraphs
    /\ ground_truth \in GroundTruths
    /\ source_emails \in Corpora
    /\ metrics = <<>>

CalculateTrustScoreCall ==
    /\ metrics = <<>>
    /\ metrics' = <<CalculateTrustScore(extracted_graph, ground_truth, source_emails)>>
    /\ UNCHANGED <<extracted_graph, ground_truth, source_emails>>
    /\ UNCHANGED <<gvars, rvars, cvars, tvars, bvars, lvars>>

-----------------------------------------------------------------------------
(* calculate_backoff_delay, applied to attempt and attempt + 1 with        *)
(* independent draws of random.uniform(-jitter_pct, jitter_pct)            *)

\* largest attempt number
MaxAttempt == 4

\* base_delay, in tenths of a second: 1.0, 2.0, 3.0
BaseDelays == {10, 20, 30}

\* random.uniform(-0.2, 0.2), in tenths, the ends included
JitterRange == -2..2

NoBackoff ==
    /\ backoff_args = [attempt |-> 1, base_delay |-> BaseDelay, jitter |-> 0,
                       next_jitter |-> 0]
    /\ backoff_delays = <<>>

InitBackoff ==
    /\ backoff_args \in [attempt : 1..MaxAttempt, base_delay : BaseDelays,
                         jitter : JitterRange, next_jitter : JitterRange]
    /\ backoff_delays = <<>>

CalculateBackoffDelayCall ==
    /\ backoff_delays = <<>>
    /\ backoff_delays' =
          <<CalculateBackoffDelay(backoff_args.attempt, backoff_args.base_delay,
                                  backoff_args.jitter),
            CalculateBackoffDelay(backoff_args.attempt + 1, backoff_args.base_delay,
                                  backoff_args.next_jitter)>>
    /\ UNCHANGED <<backoff_args, gvars, rvars, cvars, tvars, evars, lvars>>

-----------------------------------------------------------------------------
(* get_rate_limiter: the registry _rate_limiters under _limiter_lock, and  *)
(* the RateLimiter objects it hands out. Here a timestamp is its age in    *)
(* seconds, and time passes a whole window at a time.                      *)

\* (max_calls, period) of the requests; the last pair is the default of
\* get_rate_limiter(), which rate_limited_llm_call uses when limiter is None
LimiterArgs == {<<1, 11>>, <<11, 1>>, <<50, 60>>}

\* the longest period of LimiterArgs
LongestPeriod == 60

\* a list of timestamps is followed up to this length
MaxRecorded == 2

\* str(n) of a natural number, digit by digit
RECURSIVE Digits(_)
Digits(n) ==
    IF n < 10 THEN <<ToString(n)>> ELSE Digits(n \div 10) \o <<ToString(n % 10)>>

\* mutant: the key without the separator
LimiterKeyWithoutSeparator(max_calls, period) == Digits(max_calls) \o Digits(period)

\* key = f"{max_calls}_{period}"
LimiterKey(max_calls, period) == Digits(max_calls) \o <<"_">> \o Digits(period)

\* RateLimiter(max_calls=max_calls, period=period): call_timestamps is a
\* new list, the next one of lists
NewRateLimiter(max_calls, period) ==
    [max_calls |-> max_calls, period |-> period, call_timestamps |-> Len(lists) + 1]

\* _clean_old_calls on a list, for a limiter of the period given
CleanOld(ts, period) == SelectSeq(ts, LAMBDA age : age < period)

\* call_count and can_make_call of the RateLimiter i, given the lists
CallCountOf(i, ls) ==
    Len(CleanOld(ls[instances[i].call_timestamps], instances[i].period))

CanMakeCallOf(i, ls) == CallCountOf(i, ls) < instances[i].max_calls

InitRegistry ==
    /\ rate_limiters = <<>>
    /\ limiter_lock = "free"
    /\ instances = <<>>
    /\ lists = <<>>
    /\ g_pc = [t \in Threads |-> "idle"]
    /\ g_args = [t \in Threads |-> <<50, 60>>]
    /\ g_limiter = [t \in Threads |-> 0]
    /\ returned = {}

outsideRegistry == <<gvars, rvars, cvars, tvars, evars, bvars>>

\* a thread calls get_rate_limiter, for the first time or again
GetRateLimiterCall(t) ==
    /\ g_pc[t] \in {"idle", "holding"}
    /\ \E a \in LimiterArgs : g_args' = [g_args EXCEPT ![t] = a]
    /\ g_pc' = [g_pc EXCEPT ![t] = "called"]
    /\ g_limiter' = [g_limiter EXCEPT ![t] = 0]
    /\ UNCHANGED <<rate_limiters, limiter_lock, instances, lists, returned>>
    /\ UNCHANGED outsideRegistry

\* "with _limiter_lock:" is entered
AcquireLimiterLock(t) ==
    /\ g_pc[t] = "called"
    /\ limiter_lock = "free"
    /\ limiter_lock' = t
    /\ g_pc' = [g_pc EXCEPT ![t] = "locked"]
    /\ UNCHANGED <<rate_limiters, instances, lists, g_args, g_limiter, returned>>
    /\ UNCHANGED outsideRegistry

\* "if key not in _rate_limiters"
TestKey(t) ==
    /\ g_pc[t] = "locked"
    /\ g_pc' = [g_pc EXCEPT ![t] =
                  IF LimiterKey(g_args[t][1], g_args[t][2]) \in DOMAIN rate_limiters
                  THEN "found" ELSE "missing"]
    /\ UNCHANGED <<rate_limiters, limiter_lock, instances, lists, g_args,
                   g_limiter, returned>>
    /\ UNCHANGED outsideRegistry

\* "_rate_limiters[key] = RateLimiter(...)", then the return, which leaves
\* the with block
CreateAndReturn(t) ==
    /\ g_pc[t] = "missing"
    /\ LET key == LimiterKey(g_args[t][1], g_args[t][2])
           new == Len(instances) + 1
       IN  /\ instances' = Append(instances,
                                  NewRateLimiter(g_args[t][1], g_args[t][2]))
           /\ lists' = Append(lists, <<>>)
           /\ rate_limiters' = (key :> new) @@ rate_limiters
           /\ g_limiter' = [g_limiter EXCEPT ![t] = new]
           /\ returned' = returned \cup {<<g_args[t], new>>}
    /\ limiter_lock' = "free"
    /\ g_pc' = [g_pc EXCEPT ![t] = "holding"]
    /\ UNCHANGED g_args
    /\ UNCHANGED outsideRegistry

\* "return _rate_limiters[key]" for a key already there
ReturnExisting(t) ==
    /\ g_pc[t] = "found"
    /\ LET key == LimiterKey(g_args[t][1], g_args[t][2])
       IN  /\ g_limiter' = [g_limiter EXCEPT ![t] = rate_limiters[key]]
           /\ returned' = returned \cup {<<g_args[t], rate_limiters[key]>>}
    /\ limiter_lock' = "free"
    /\ g_pc' = [g_pc EXCEPT ![t] = "holding"]
    /\ UNCHANGED <<rate_limiters, instances, lists, g_args>>
    /\ UNCHANGED outsideRegistry

\* limiter.can_make_call() on the limiter the thread holds: it prunes
LimiterCanMakeCall(t) ==
    /\ g_pc[t] = "holding"
    /\ LET l == instances[g_limiter[t]]
       IN  lists' = [lists EXCEPT ![l.call_timestamps] = CleanOld(@, l.period)]
    /\ UNCHANGED <<rate_limiters, limiter_lock, instances, g_pc, g_args,
                   g_limiter, returned>>
    /\ UNCHANGED outsideRegistry

\* limiter.record_call() on the limiter the thread holds
LimiterRecordCall(t) ==
    /\ g_pc[t] = "holding"
    /\ LET l == instances[g_limiter[t]]
       IN  /\ Len(lists[l.call_timestamps]) < MaxRecorded
           /\ lists' = [lists EXCEPT ![l.call_timestamps] =
                            CleanOld(Append(@, 0), l.period)]
    /\ UNCHANGED <<rate_limiters, limiter_lock, instances, g_pc, g_args,
                   g_limiter, returned>>
    /\ UNCHANGED outsideRegistry

\* a time longer than every period passes
WindowPasses ==
    /\ \E a \in DOMAIN lists : \E k \in DOMAIN lists[a] : lists[a][k] < LongestPeriod
    /\ lists' = [a \in DOMAIN lists |->
                    [k \in DOMAIN lists[a] |-> LongestPeriod]]
    /\ UNCHANGED <<rate_limiters, limiter_lock, instances, g_pc, g_args,
                   g_limiter, returned>>
    /\ UNCHANGED outsideRegistry
-----------------------------------------------------------------------------
Init ==
    /\ InitGraph /\ InitRetry /\ NotClassified /\ InitThreads /\ NotScored
    /\ NoBackoff /\ InitRegistry

(* agent_3_verifier on one batch *)
Next ==
    \/ VerifyAndAddProject
    \/ AddTopic
    \/ AddChallenge
    \/ AddResolution
    \/ ExportAndStats

Spec == Init /\ [][Next]_vars

(* rate_limited_llm_call, called repeatedly on one limiter *)
NextRetry ==
    \/ StartCall
    \/ AttemptRefused
    \/ AttemptCall

SpecRetry == Init /\ [][NextRetry]_vars

(* calculate_backoff_delay on every attempt, base delay and pair of jitters *)
InitBackoffDelay ==
    /\ InitGraph /\ InitRetry /\ NotClassified /\ InitThreads /\ NotScored
    /\ InitBackoff /\ InitRegistry

NextBackoffDelay == CalculateBackoffDelayCall

SpecBackoffDelay == InitBackoffDelay /\ [][NextBackoffDelay]_vars

(* get_rate_limiter in every thread of Threads, and the limiters in use *)
NextRegistry ==
    \/ WindowPasses
    \/ \E t \in Threads : GetRateLimiterCall(t)
    \/ \E t \in Threads : AcquireLimiterLock(t)
    \/ \E t \in Threads : TestKey(t)
    \/ \E t \in Threads : CreateAndReturn(t)
    \/ \E t \in Threads : ReturnExisting(t)
    \/ \E t \in Threads : LimiterCanMakeCall(t)
    \/ \E t \in Threads : LimiterRecordCall(t)

SpecRegistry == Init /\ [][NextRegistry]_vars

(* the thread running the call keeps running: func returns or raises, and a *)
(* time.sleep ends                                                          *)
SpecRetryFair == SpecRetry /\ WF_vars(AttemptRefused \/ AttemptCall)

(* is_retryable_error on every error of ErrorInputs *)
InitIsRetryable ==
    /\ InitGraph /\ InitRetry /\ InitClassify /\ InitThreads /\ NotScored
    /\ NoBackoff /\ InitRegistry

NextIsRetryable == IsRetryableErrorCall

SpecIsRetryable == InitIsRetryable /\ [][NextIsRetryable]_vars

(* rate_limited_llm_call in every thread of Threads, one limiter *)
NextThreads ==
    \/ Tick
    \/ \E t \in Threads : ThreadStart(t)
    \/ \E t \in Threads : ThreadCheck(t)
    \/ \E t \in Threads : ThreadCall(t)
    \/ \E t \in Threads : ThreadWake(t)

SpecThreads == Init /\ [][NextThreads]_vars

(* calculate_trust_score on every graph, ground truth and corpus above *)
InitTrustScore ==
    /\ InitGraph /\ InitRetry /\ NotClassified /\ InitThreads /\ InitScore
    /\ NoBackoff /\ InitRegistry

NextTrustScore == CalculateTrustScoreCall

SpecTrustScore == InitTrustScore /\ [][NextTrustScore]_vars

-----------------------------------------------------------------------------
(* Claims about the graph builder, checked under Spec *)

\* a step in which verify_fact ran once
VerifyStep ==
    accepted_n' + Len(rejected_facts') = accepted_n + Len(rejected_facts) + 1

AcceptStep == accepted_n' = accepted_n + 1

\* C1: every node and every edge has a non-empty evidence list, and every id
\* in it is the message_id of a source email.
C1_EvidenceGrounded ==
    /\ \A n \in DOMAIN nodes :
         /\ nodes[n].evidence # <<>>
         /\ Range(nodes[n].evidence) \subseteq cleaned_emails
    /\ \A e \in DOMAIN edges :
         /\ edges[e].evidence # <<>>
         /\ Range(edges[e].evidence) \subseteq cleaned_emails

\* C2: the graph changes only in a step whose oracle call returned
\* "supported"; a step whose oracle call raised, could not be parsed or said
\* "unsupported" leaves the graph unchanged and records one rejection.
C2_OnlySupportedInserted ==
    [][ /\ (nodes' # nodes \/ edges' # edges)
            => (llm_calls' = llm_calls + 1 /\ last'.outcome = "supported")
        /\ (llm_calls' = llm_calls + 1 /\ last'.outcome # "supported")
            => /\ nodes' = nodes
               /\ edges' = edges
               /\ accepted_n' = accepted_n
               /\ Len(rejected_facts') = Len(rejected_facts) + 1 ]_vars

\* the oracle call of a topic raised after its project was inserted
C2_Witness ==
    /\ last.kind = "Topic"
    /\ last.outcome = "raised"
    /\ ~last.valid
    /\ Len(rejected_facts) = 1
    /\ DOMAIN nodes = {<<"p1">>}

\* C3: a fact whose evidence list is empty or matches no source email is
\* rejected without a call of rate_limited_llm_call.
C3_NoOracleWithoutEvidence ==
    [][ (VerifyStep /\ EvidenceEmails(last'.evidence_ids) = {})
            => /\ llm_calls' = llm_calls
               /\ accepted_n' = accepted_n
               /\ nodes' = nodes
               /\ edges' = edges ]_vars

\* a challenge citing only an id absent from the corpus was rejected, the
\* only oracle call so far being the one of its project
C3_Witness ==
    /\ last.kind = "Challenge"
    /\ last.evidence_ids = <<"g1">>
    /\ ~last.valid
    /\ llm_calls = 1
    /\ Len(rejected_facts) = 1

\* C4: between projects and at the end of the batch, every candidate fact
\* of the project_data read so far was either inserted or recorded in
\* rejected_facts.
C4_NoCandidateDropped ==
    pc \in {"loop", "raised_KeyError"}
        => offered = accepted_n + Len(rejected_facts)

\* C5: a resolution rejected because none of its evidence ids is in the
\* corpus is recorded with the reason EvidenceNotFound, a reason no rejection
\* for another cause carries (and the graph gets no node for it: C3).
C5_EvidenceNotFoundReason ==
    \A i \in 1..Len(rejected_facts) :
        (rejected_facts[i].kind = "Resolution"
            /\ rejected_facts[i].cause = "EvidenceNotFound")
        => /\ rejected_facts[i].reason = "EvidenceNotFound"
           /\ \A j \in 1..Len(rejected_facts) :
                 rejected_facts[j].cause # "EvidenceNotFound"
                    => rejected_facts[j].reason # rejected_facts[i].reason

\* C6: accepting a Project or Topic whose node already exists leaves the
\* node count unchanged and makes the node's evidence the union of the old
\* and the new evidence.
C6_UpsertMergesEvidence ==
    [][ (/\ AcceptStep
         /\ last'.kind \in {"Project", "Topic"}
         /\ last'.node_id \in DOMAIN nodes
         /\ nodes[last'.node_id].node_type = last'.kind)
            => /\ Cardinality(DOMAIN nodes') = Cardinality(DOMAIN nodes)
               /\ Range(nodes'[last'.node_id].evidence)
                    = Range(nodes[last'.node_id].evidence)
                        \cup Range(last'.evidence_ids) ]_vars

\* C7: the source of every RESOLVED_BY edge is a Challenge node and its
\* target a Resolution node.
C7_ResolvedByTyped ==
    \A e \in DOMAIN edges :
        edges[e].edge_type = "RESOLVED_BY"
            => /\ nodes[e[1]].node_type = "Challenge"
               /\ nodes[e[2]].node_type = "Resolution"

BuiltGraph == [nodes |-> nodes, edges |-> edges]

\* C20: whenever the graph built through verify_fact from the corpus
\* cleaned_emails is not empty, calculate_fact_traceability over that corpus
\* is 1.0 and detect_hallucinations returns an empty list: every node and
\* every edge has at least one evidence id that is a message_id of the corpus.
C20_BuiltGraphFullyTraceable ==
    DOMAIN nodes # {}
        => /\ CalculateFactTraceability(BuiltGraph, cleaned_emails) = Frac(1, 1)
           /\ DetectHallucinations(BuiltGraph, cleaned_emails) = {}
           /\ \A n \in DOMAIN nodes :
                 Range(nodes[n].evidence) \cap cleaned_emails # {}
           /\ \A x \in DOMAIN edges :
                 Range(edges[x].evidence) \cap cleaned_emails # {}

\* a project and a resolution linked to it, one of them accepted on an
\* evidence list that also cites an id absent from the corpus
C20_Witness ==
    /\ Cardinality(DOMAIN nodes) = 2
    /\ Cardinality(DOMAIN edges) = 1
    /\ last.kind = "Resolution"
    /\ last.valid
    /\ last.evidence_ids = <<"m2", "g1">>
    /\ CalculateFactTraceability(BuiltGraph, cleaned_emails) = Frac(1, 1)

-----------------------------------------------------------------------------
(* Claims about rate_limited_llm_call, checked under SpecRetry *)

\* C9: one call with max_retries = N invokes func at most N + 1 times, and
\* exactly N + 1 times when every invocation failed with a retryable error,
\* the limiter never refused and the time cap was not reached.
C9_AtMostNPlusOneInvocations ==
    /\ invocations <= max_retries + 1
    /\ (/\ rpc = "raised"
        /\ refusals = 0
        /\ raise_kind \notin {"non_retryable", "time_cap_exceeded"})
        => /\ raise_kind = "retries_exhausted"
           /\ invocations = max_retries + 1
           /\ Len(errors_history) = max_retries + 1

\* max_retries = 3: four invocations, each failing with a retryable error
C9_Witness ==
    /\ rpc = "raised"
    /\ max_retries = 3
    /\ raise_kind = "retries_exhausted"
    /\ refusals = 0
    /\ invocations = 4
    /\ Len(slept) = 3

\* C10: when an invocation of func raises an error whose status code is
\* 400, 401, 403 or 404, the call ends at once: no sleep, the error raised is
\* the one func raised, and no further invocation follows; on the first
\* attempt func has then been invoked exactly once.
C10_NonRetryableFailsFast ==
    [][ /\ (/\ invocations' = invocations + 1
            /\ last_out'.status_code \in {400, 401, 403, 404})
            => /\ rpc' = "raised"
               /\ raised' = last_out'
               /\ slept' = slept
               /\ (attempt = 0 => (invocations' = 1 /\ slept' = <<>>))
        /\ (rpc = "raised" /\ ncalls' = ncalls)
            => (invocations' = invocations /\ slept' = slept) ]_vars

\* func raised a 401 on the first attempt
C10_Witness ==
    /\ rpc = "raised"
    /\ raised.status_code = 401
    /\ raised \in FuncErrors
    /\ attempt = 1
    /\ invocations = 1
    /\ slept = <<>>
    /\ max_retries = 3

\* an invocation of func failed with a retryable error and retries are left
RetryableFailureStep ==
    /\ invocations' = invocations + 1
    /\ last_out' \in FuncErrors
    /\ IsRetryableError(last_out')
    /\ attempt' <= max_retries

\* C12: after a retryable failure whose Retry-After parses as a number of
\* seconds d >= 0 (0 included), d is the delay of the time-cap check and of
\* the wait: the call either raises because elapsed + d exceeds the cap, or
\* sleeps exactly d.
C12_RetryAfterReplacesBackoff ==
    [][ (RetryableFailureStep /\ ParseRetryAfter(last_out'.retry_after) # <<>>)
            => LET d == ParseRetryAfter(last_out'.retry_after)[1]
               IN  \/ /\ raise_kind' = "time_cap_exceeded"
                      /\ elapsed' + d > max_total_time
                      /\ slept' = slept
                   \/ /\ rpc' = "loop"
                      /\ slept' = Append(slept, d)
                      /\ elapsed' <= max_total_time ]_vars

RECURSIVE SumSeq(_)
SumSeq(q) == IF q = <<>> THEN 0 ELSE Head(q) + SumSeq(Tail(q))

\* the shortest wait the call can make: the backoff of attempt 1 with the
\* lowest jitter
MinSleep == CalculateBackoffDelay(1, BaseDelay, -2)

\* C13: the call sleeps only while elapsed + delay <= max_total_time, so it
\* is at the head of the loop only with elapsed <= max_total_time and the
\* sum of its sleeps never exceeds max_total_time, after failures of func
\* and after refusals alike; a time-cap raise ends the call at once, without
\* the sleep of that attempt and with retries left; the number of attempts
\* is bounded by the cap, whatever max_retries is.
C13_TimeCapBoundsSleeping ==
    /\ SumSeq(slept) <= elapsed
    /\ SumSeq(slept) <= max_total_time
    /\ rpc = "loop" => elapsed <= max_total_time
    /\ raise_kind = "time_cap_exceeded"
         => /\ rpc = "raised"
            /\ attempt <= max_retries
            /\ Len(slept) = attempt - 1
    /\ rpc # "idle" => (attempt - 1) * MinSleep <= max_total_time

\* max_retries = 3 and a cap of 2 s: the second failure of func ends the
\* call, two retries unused
C13_Witness ==
    /\ raise_kind = "time_cap_exceeded"
    /\ max_retries = 3
    /\ max_total_time = 20
    /\ invocations = 2
    /\ refusals = 0
    /\ Len(slept) = 1
    /\ last_out.status_code = 503

\* C14: whenever the call ends in failure (retries exhausted, time cap
\* exceeded, a non-retryable error after earlier errors, or a refusal of the
\* limiter on the last attempt), the message of the raised error contains the
\* number of attempts made and the joined messages of all errors recorded.
C14_RaisedErrorEmbedsHistory ==
    (/\ rpc = "raised"
     /\ \/ raise_kind \in {"retries_exhausted", "time_cap_exceeded",
                           "rate_limit_exceeded"}
        \/ (raise_kind = "non_retryable" /\ Len(errors_history) > 1))
        => /\ Embeds(raised.msg, <<ToString(attempt)>>)
           /\ Embeds(raised.msg, Join(errors_history))

\* every error recorded in the call is the message "rate limit"
OnlyRateLimitErrors ==
    \A i \in 1..Len(errors_history) : errors_history[i] = <<"rate", "limit">>

\* C15: when every invocation of func raised Exception("rate limit") (no
\* status code) and the call ended because the retries were exhausted, the
\* error raised is a RateLimitExceeded and func was invoked max_retries + 1
\* times.
C15_ExhaustionRaisesRateLimitExceeded ==
    (/\ rpc = "raised"
     /\ raise_kind = "retries_exhausted"
     /\ refusals = 0
     /\ OnlyRateLimitErrors)
        => /\ raised.type = "RateLimitExceeded"
           /\ invocations = max_retries + 1

\* C16 (under SpecRetryFair): for every max_retries >= 0 the call never
\* reaches the RuntimeError after the loop, is at the head of the loop only
\* with attempts left, and every call that entered the loop ends by returning
\* the result of func or by raising.
C16_TerminatesWithoutFallThrough ==
    /\ [](raise_kind # "runtime_error")
    /\ [](rpc = "loop" => attempt <= max_retries)
    /\ (rpc = "loop" ~> rpc \in {"returned", "raised"})

\* func succeeded on the last attempt allowed, after three retries
C16_Witness ==
    /\ rpc = "returned"
    /\ max_retries = 3
    /\ attempt = 4
    /\ invocations + refusals = 4
    /\ Len(slept) = 3
    /\ raise_kind = "none"

\* timestamps of ts within the last LimiterPeriod
WindowCount(ts) == Cardinality({i \in 1..Len(ts) : ts[i] < LimiterPeriod})

\* C17: with one caller, the limiter never holds more than max_calls
\* timestamps within the window; func is invoked only in an attempt at whose
\* check the window held fewer than max_calls timestamps; and a check prunes:
\* of the timestamps held before it only those within the window are kept.
C17_WindowNeverOverfull ==
    /\ [](WindowCount(call_timestamps) <= LimiterMaxCalls)
    /\ [][ (invocations' = invocations + 1
                => WindowCount(call_timestamps) < LimiterMaxCalls)
           /\ (attempt' = attempt + 1
                => Len(call_timestamps')
                     <= WindowCount(call_timestamps)
                        + (IF rpc' = "returned" THEN 1 ELSE 0)) ]_vars

\* the window was full when the call started; after one refusal and a wait
\* the old timestamp was pruned and func was invoked and recorded
C17_Witness ==
    /\ rpc = "returned"
    /\ ncalls = 2
    /\ refusals = 1
    /\ invocations = 1
    /\ call_timestamps = <<0>>

-----------------------------------------------------------------------------
(* Claims about is_retryable_error, checked under SpecIsRetryable *)

FallbackWords ==
    {"quota", "service unavailable", "503", "timeout", "504"}

\* none of the substrings the fallback looks for is in the message
NoFallbackSubstring(msg) ==
    /\ ~(Contains(msg, "rate") /\ Contains(msg, "limit"))
    /\ \A w \in FallbackWords : ~Contains(msg, w)

\* C11: is_retryable_error returns True for status 429, 500, 502, 503, 504
\* and False for status 400, 401, 403, 404, whatever the message; an error
\* without status code whose message has none of the fallback substrings
\* gives False; the message decides only when no listed status is attached.
C11_StatusDecidesFirst ==
    is_retryable # <<>>
        => /\ error_arg.status_code \in {429, 500, 502, 503, 504}
                => is_retryable[1]
           /\ error_arg.status_code \in {400, 401, 403, 404}
                => ~is_retryable[1]
           /\ (error_arg.status_code = NoStatus /\ NoFallbackSubstring(error_arg.msg))
                => ~is_retryable[1]
           /\ error_arg.status_code \notin {429, 500, 502, 503, 504, 400, 401, 403, 404}
                => (is_retryable[1] <=> ~NoFallbackSubstring(error_arg.msg))

\* a 403 whose message says "rate limit" was classified as not retryable
C11_Witness ==
    /\ is_retryable = <<FALSE>>
    /\ error_arg.status_code = 403
    /\ error_arg.msg = <<"rate", "limit">>

-----------------------------------------------------------------------------
(* Claims about concurrent callers, checked under SpecThreads *)

\* C18: with several threads calling on one limiter, the number of calls
\* recorded within one window never exceeds max_calls.
C18_AdmissionAtomic ==
    WindowCount(call_timestamps) <= LimiterMaxCalls

-----------------------------------------------------------------------------
(* Claims about calculate_trust_score, checked under SpecTrustScore *)

\* the unrounded components of the call made
ScoredFT == CalculateFactTraceability(extracted_graph, source_emails)

ScoredEC ==
    IF HasGroundTruth(ground_truth)
    THEN CalculateExtractionCompleteness(extracted_graph, ground_truth)
    ELSE EstimateCompleteness(extracted_graph, source_emails)

ScoredPA ==
    IF HasGroundTruth(ground_truth)
    THEN CalculatePhaseAccuracy(extracted_graph, ground_truth)
    ELSE FracZero

ScoredHR ==
    IF CountExtractedFacts(extracted_graph) > 0
    THEN Frac(Cardinality(DetectHallucinations(extracted_graph, source_emails)),
              CountExtractedFacts(extracted_graph))
    ELSE FracZero

\* 1000 * (0.35 ft + 0.25 ec + 0.20 pa + 0.20 (1 - hr)) as the fraction n / d
FormulaThousandths(ft, ec, pa, hr) ==
    [n |-> 350 * ft.n * ec.d * pa.d * hr.d + 250 * ec.n * ft.d * pa.d * hr.d
           + 200 * pa.n * ft.d * ec.d * hr.d
           + 200 * (hr.d - hr.n) * ft.d * ec.d * pa.d,
     d |-> ft.d * ec.d * pa.d * hr.d]

\* k is x rounded to a whole number (a tie may go either way)
IsRounding(k, x) == 2 * k * x.d - x.d <= 2 * x.n /\ 2 * x.n <= 2 * k * x.d + x.d

\* every node and every edge has an evidence id of the corpus
AllEvidenceValid ==
    /\ \A x \in DOMAIN extracted_graph.nodes :
         Traceable(extracted_graph.nodes[x].evidence, source_emails)
    /\ \A x \in EdgesOf(extracted_graph) :
         Traceable(extracted_graph.edges[x].evidence, source_emails)

\* trust_score is the weighted sum of the unrounded components, rounded to
\* 3 decimals, and phase_accuracy is 0 without ground truth
ScoreIsFormula ==
    /\ IsRounding(metrics[1].trust_score,
                  FormulaThousandths(ScoredFT, ScoredEC, ScoredPA, ScoredHR))
    /\ ~HasGroundTruth(ground_truth) => metrics[1].phase_accuracy = 0

\* 1000 * (0.55 + 0.25 ec)
AllValidScore(ec) == [n |-> 550 * ec.d + 250 * ec.n, d |-> ec.d]

\* C19 as stated: trust_score is the rounded weighted sum of the unrounded
\* components; without ground truth PhaseAccuracy is 0 and every graph whose
\* nodes and edges all carry valid evidence scores 0.55 + 0.25 *
\* ExtractionCompleteness.
C19_TrustScoreFormula ==
    metrics # <<>>
        => /\ ScoreIsFormula
           /\ (~HasGroundTruth(ground_truth) /\ AllEvidenceValid)
                => IsRounding(metrics[1].trust_score, AllValidScore(ScoredEC))

\* C19 amended: the same, the score 0.55 + 0.25 * ExtractionCompleteness
\* being that of every graph with at least one node whose nodes and edges
\* all carry valid evidence.
C19_TrustScoreFormulaNonEmpty ==
    metrics # <<>>
        => /\ ScoreIsFormula
           /\ (/\ ~HasGroundTruth(ground_truth)
               /\ AllEvidenceValid
               /\ DOMAIN extracted_graph.nodes # {})
                => IsRounding(metrics[1].trust_score, AllValidScore(ScoredEC))

\* a project, a topic and their edge, all with evidence of the corpus, no
\* ground truth: 3 facts of 8 expected and one email of two used give
\* ExtractionCompleteness 0.425 and the score 0.656
C19_Witness ==
    /\ metrics # <<>>
    /\ ground_truth = NoGroundTruth
    /\ source_emails = cleaned_emails
    /\ extracted_graph = GraphPTE(<<"m1">>, "Scoping", <<"m1">>, <<"m1">>)
    /\ metrics[1].extraction_completeness = 425
    /\ metrics[1].trust_score = 656

\* the nodes and edges with no evidence, or none of the corpus
Untraceable(g, source_message_ids) ==
    Cardinality({x \in DOMAIN g.nodes :
                    ~Traceable(g.nodes[x].evidence, source_message_ids)})
    + Cardinality({x \in EdgesOf(g) :
                    ~Traceable(g.edges[x].evidence, source_message_ids)})

\* C21: HallucinationRate is the number of nodes and edges without evidence
\* of the corpus divided by the number of nodes plus edges, such an edge is
\* listed as a hallucination as a node is, and HallucinationRate =
\* 1 - FactTraceability for every non-empty graph.
C21_HallucinationRateCountsEdges ==
    (metrics # <<>> /\ CountExtractedFacts(extracted_graph) > 0)
        => /\ metrics[1].hallucination_rate
                = Round3(Frac(Untraceable(extracted_graph, source_emails),
                              CountExtractedFacts(extracted_graph)))
           /\ Cardinality(metrics[1].hallucinations)
                = Untraceable(extracted_graph, source_emails)
           /\ ScoredHR = FracOneMinus(ScoredFT)

-----------------------------------------------------------------------------
(* Claims about agent_3_verifier as a whole, checked under Spec *)

\* C22: agent_3_verifier completes without raising once all projects have
\* been processed (and returns verified_graph, rejected_facts, graph_json).
C22_CompletesWithoutRaising ==
    pc # "raised_KeyError"

\* a step in which verify_fact ran and did not return True: no evidence of
\* the corpus, an answer "unsupported", an unparsable answer, or an exception
FailedVerification == VerifyStep /\ last'.outcome # "supported"

SubFactsLeft(t) == t.topics + t.challenges + t.resolutions

\* C23: a rejection or an oracle failure never aborts the batch: the failed
\* fact is recorded as rejected, the loop over the projects goes on, and
\* within an accepted project every remaining topic, challenge and
\* resolution is still to be verified.
C23_FailureNeverAbortsBatch ==
    /\ [][FailedVerification
            => /\ Len(rejected_facts') = Len(rejected_facts) + 1
               /\ SubSeq(rejected_facts', 1, Len(rejected_facts)) = rejected_facts
               /\ rejected_facts'[Len(rejected_facts')].kind = last'.kind
               /\ pc' \in {"loop", "topics", "challenges", "resolutions"}
               /\ (last'.kind # "Project")
                    => /\ SubFactsLeft(todo') = SubFactsLeft(todo) - 1
                       /\ (pc' = "loop") <=> (SubFactsLeft(todo') = 0)
               /\ (last'.kind = "Project") => pc' = "loop"]_vars
    /\ []((pc = "loop" /\ offered < MaxFacts) => ENABLED VerifyAndAddProject)

\* the oracle raised on a topic of an accepted project, the topic is the
\* rejected fact recorded last, and a challenge of the project is next
C23_Witness ==
    /\ last.kind = "Topic"
    /\ last.outcome = "raised"
    /\ rejected_facts # <<>>
    /\ rejected_facts[Len(rejected_facts)].kind = "Topic"
    /\ rejected_facts[Len(rejected_facts)].cause = "OracleUnavailable"
    /\ pc = "challenges"
    /\ todo.challenges > 0

-----------------------------------------------------------------------------
(* Claims about calculate_backoff_delay, checked under SpecBackoffDelay *)

\* C24: calculate_backoff_delay(n, base) lies in [0.8 * 2^(n-1) * base,
\* 1.2 * 2^(n-1) * base] (for base 1.0: [0.8, 1.2], [1.6, 2.4], [3.2, 4.8]),
\* and the delay computed for attempt n + 1 is strictly greater than the
\* delay computed for attempt n whatever the two jitters.
C24_BackoffWithinBandAndIncreasing ==
    backoff_delays # <<>>
        => LET n == backoff_args.attempt
               base == backoff_args.base_delay
               delay == backoff_delays[1]
               next_delay == backoff_delays[2]
           IN  /\ 8 * 2^(n - 1) * base <= 10 * delay
               /\ 10 * delay <= 12 * 2^(n - 1) * base
               /\ (base = 10 /\ n = 1) => (8 <= delay /\ delay <= 12)
               /\ (base = 10 /\ n = 2) => (16 <= delay /\ delay <= 24)
               /\ (base = 10 /\ n = 3) => (32 <= delay /\ delay <= 48)
               /\ next_delay > delay

\* attempt 3 with base 1.0 and the largest jitter is 4.8 s, and attempt 4
\* with the smallest jitter is 6.4 s
C24_Witness ==
    /\ backoff_args = [attempt |-> 3, base_delay |-> 10, jitter |-> 2,
                       next_jitter |-> -2]
    /\ backoff_delays = <<48, 64>>

-----------------------------------------------------------------------------
(* Claims about the attempts the local limiter refuses, checked under      *)
(* SpecRetry                                                               *)

\* an iteration of the while in which limiter.can_make_call() returned False
RefusalStep == refusals' = refusals + 1

BackoffDelaysOf(a) == {CalculateBackoffDelay(a, BaseDelay, j) : j \in Jitters}

\* C25: an attempt the local limiter refuses does not invoke func and uses
\* up one attempt (refusals plus invocations never exceed max_retries + 1);
\* it is followed by a backoff wait unless elapsed + delay > max_total_time,
\* and a refusal on the last attempt raises RateLimitExceeded without
\* invoking func.
C25_RefusalConsumesAttempt ==
    /\ [](refusals + invocations <= max_retries + 1)
    /\ [][RefusalStep
            => /\ invocations' = invocations
               /\ attempt' = attempt + 1
               /\ IF attempt' > max_retries
                  THEN /\ rpc' = "raised"
                       /\ raised'.type = "RateLimitExceeded"
                       /\ raise_kind' = "rate_limit_exceeded"
                       /\ slept' = slept
                  ELSE \/ /\ rpc' = "raised"
                          /\ raised'.type = "RateLimitExceeded"
                          /\ raise_kind' = "time_cap_exceeded"
                          /\ slept' = slept
                          /\ \E d \in BackoffDelaysOf(attempt') :
                                elapsed + d > max_total_time
                       \/ /\ rpc' = "loop"
                          /\ \E d \in BackoffDelaysOf(attempt') :
                                /\ slept' = Append(slept, d)
                                /\ elapsed + d <= max_total_time
                                /\ elapsed' = elapsed + d]_vars

\* a call of max_retries 1 or more never invoked func: the limiter refused,
\* the call waited, and the refusal on the last attempt raised
C25_Witness ==
    /\ rpc = "raised"
    /\ raise_kind = "rate_limit_exceeded"
    /\ raised.type = "RateLimitExceeded"
    /\ invocations = 0
    /\ refusals = max_retries + 1
    /\ slept # <<>>

-----------------------------------------------------------------------------
(* Claims about get_rate_limiter, checked under SpecRegistry *)

\* Definitions used by C26: the RateLimiter objects other than i
OtherLimiters(i) == (1..Len(instances)) \ {i}

-----------------------------------------------------------------------------
(* Further claims about the graph builder, checked under Spec *)

\* the accepted fact of the step is stored under a node id in use
StoredOnExistingNode == AcceptStep /\ last'.node_id \in DOMAIN nodes

\* C27: two accepted facts are stored under the same node id only if they
\* are the same logical entity: the node in use has the type of the fact,
\* so a challenge and a resolution of one project never share a node, and a
\* challenge is stored on the node of an accepted challenge of its project
\* only if it carries that challenge's id, not when its 'id' is missing.
C27_NodeIdentityByTypeAndKey ==
    [][StoredOnExistingNode
        => /\ nodes[last'.node_id].node_type = last'.kind
           /\ (last'.kind = "Challenge" /\ last'.node_id \in acceptedCh)
                => last'.node_id # ChallengeId(project_id, Absent)]_vars

\* C28: when verify_fact rejects a fact, the step leaves the nodes, the
\* edges and their attributes unchanged and appends exactly one entry to
\* rejected_facts; rejected_facts is append-only, and an accepted fact adds
\* no entry to it.
C28_RejectionLeavesGraphUnchanged ==
    [][/\ FailedVerification
            => /\ nodes' = nodes
               /\ edges' = edges
               /\ Len(rejected_facts') = Len(rejected_facts) + 1
       /\ Len(rejected_facts') >= Len(rejected_facts)
       /\ SubSeq(rejected_facts', 1, Len(rejected_facts)) = rejected_facts
       /\ (VerifyStep /\ last'.outcome = "supported")
            => rejected_facts' = rejected_facts]_vars

\* a resolution citing no email of the corpus was rejected without an
\* oracle call, after facts had been accepted into the graph
C28_Witness ==
    /\ last.kind = "Resolution"
    /\ last.outcome = "none"
    /\ ~last.valid
    /\ rejected_facts # <<>>
    /\ rejected_facts[Len(rejected_facts)].kind = "Resolution"
    /\ accepted_n >= 2
    /\ DOMAIN edges # {}

-----------------------------------------------------------------------------
(* Further claims about rate_limited_llm_call, checked under SpecRetry *)

\* new is old apart from pruning and the passing of time: the entries
\* pruned are the oldest, and no entry was added
PrunedAndAged(new, old) ==
    /\ Len(new) <= Len(old)
    /\ \E d \in 0..LimiterPeriod :
         \A i \in 1..Len(new) :
            new[i] = Min(old[i + Len(old) - Len(new)] + d, LimiterPeriod)

\* C29: the limiter's timestamps grow by exactly one when a call returns
\* successfully, and by none for an invocation that raises or an attempt
\* the limiter refused: a failed attempt leaves them unchanged apart from
\* pruning.
C29_OnlySuccessIsRecorded ==
    [][(rpc = "loop")
        => IF rpc' = "returned"
           THEN /\ call_timestamps' # <<>>
                /\ call_timestamps'[Len(call_timestamps')] = 0
                /\ PrunedAndAged(SubSeq(call_timestamps', 1,
                                        Len(call_timestamps') - 1),
                                 call_timestamps)
           ELSE PrunedAndAged(call_timestamps', call_timestamps)]_vars

\* a call whose first invocation failed and whose second succeeded: two
\* invocations, one timestamp
C29_Witness ==
    /\ rpc = "returned"
    /\ ncalls = 1
    /\ invocations = 2
    /\ refusals = 0
    /\ call_timestamps = <<0>>

\* a fraction of [0, 1] whose denominator is not zero
InUnit(x) == x.d > 0 /\ 0 <= x.n /\ x.n <= x.d

\* C30: for every graph, corpus and ground truth each of fact_traceability,
\* extraction_completeness, phase_accuracy and hallucination_rate lies in
\* [0, 1], hence so does trust_score, and no division by zero occurs, also
\* for an empty graph, an empty corpus or an empty ground truth.
C30_ComponentsInUnitInterval ==
    metrics # <<>>
        => /\ InUnit(ScoredFT) /\ InUnit(ScoredEC)
           /\ InUnit(ScoredPA) /\ InUnit(ScoredHR)
           /\ InUnit(WeightedScore(ScoredFT, ScoredEC, ScoredPA, ScoredHR))
           /\ \A k \in {metrics[1].fact_traceability,
                        metrics[1].extraction_completeness,
                        metrics[1].phase_accuracy,
                        metrics[1].hallucination_rate,
                        metrics[1].trust_score} : 0 <= k /\ k <= 1000

\* the empty graph, no email and a ground truth without projects: every
\* guarded quotient takes its else branch and the score is 0.2
C30_Witness ==
    /\ metrics # <<>>
    /\ extracted_graph = EmptyGraph
    /\ source_emails = {}
    /\ ground_truth = [truthy |-> TRUE, has_projects |-> TRUE, projects |-> <<>>]
    /\ metrics[1].trust_score = 200

====
